---- MODULE Spec2Model ----
(***************************************************************************)
(* Model of the Livepeer inference adapter of src/src/index.ts:            *)
(*   - callLivepeerLLM and the TEXT_SMALL / TEXT_LARGE handlers            *)
(*     ("generate"),                                                        *)
(*   - the TEXT_EMBEDDING handler ("embed"),                                *)
(*   - livepeerPlugin.init.                                                 *)
(*                                                                         *)
(* Strings are sequences of UTF-16 code units (what charCodeAt returns).   *)
(* An optional string (string | undefined | null) is a record              *)
(* [def, str]; def = FALSE stands for undefined / null.                    *)
(***************************************************************************)
EXTENDS Integers, Sequences, FiniteSets, TLC

(* ----------------------------- bounds ---------------------------------- *)

\* longest text enumerated exhaustively over Alphabet
MaxShortLen == 3
\* long embed texts have length DIMS + k and 2*DIMS + k for k in 0..MaxWrap
MaxWrap == 2
\* number of generate calls that may be in flight together
NumCalls == 2

(* ----------------------------- strings --------------------------------- *)

None == [def |-> FALSE, str |-> <<>>]
Some(s) == [def |-> TRUE, str |-> s]

\* JavaScript truthiness of a string | undefined | null value
Truthy(o) == o.def /\ o.str # <<>>

\* a || b on optional strings
OrElse(a, b) == IF Truthy(a) THEN a ELSE b

\* the code units String.prototype.trim removes
WhiteSpace == {9, 10, 11, 12, 13, 32, 160, 5760, 8232, 8233, 8239, 8287, 12288, 65279} \cup (8192..8202)

\* !text.trim(): the text is empty or consists of white space only
IsBlankLax(text) == text = <<>>
IsBlank(text) == \A i \in 1..Len(text) : text[i] \in WhiteSpace

(* ------------------------------ embed ---------------------------------- *)

DIMS == 384

\* new Array(DIMS).fill(0).  An entry is the sequence of code units c whose
\* quotient c / 65535 has been added to it, in the order of the additions:
\* the entry's floating-point value is ((0 + c1/65535) + c2/65535) + ...,
\* and <<>> is the untouched 0.
ZeroVec == [j \in 0..(DIMS - 1) |-> <<>>]

\* const idx = i % DIMS
EmbedIdxClamped(i) == IF i < DIMS THEN i ELSE DIMS - 1
EmbedIdx(i) == i % DIMS

\* for (let i = lo; i < hi; i++) vec[i % DIMS] += text.charCodeAt(i) / 65535
\* The iterations run in increasing i.  The range is split in two halves,
\* the lower one first, to keep the depth of the evaluation logarithmic; the
\* test on the lower half's result makes TLC compute it before the upper
\* half starts and chooses between two equal expressions.
RECURSIVE Accumulate(_, _, _, _)
Accumulate(vec, text, lo, hi) ==
  IF hi <= lo THEN vec
  ELSE IF hi = lo + 1 THEN [vec EXCEPT ![EmbedIdx(lo)] = Append(@, text[lo + 1])]
  ELSE LET mid == lo + (hi - lo) \div 2
           lower == Accumulate(vec, text, lo, mid)
       IN IF lower = ZeroVec THEN Accumulate(ZeroVec, text, mid, hi)
          ELSE Accumulate(lower, text, mid, hi)

\* embed parameters: null, a string, or an object with or without a text
\* property (whose value may be undefined / null)
NullParams == [kind |-> "null", hasText |-> FALSE, text |-> None]
StrParams(s) == [kind |-> "string", hasText |-> FALSE, text |-> Some(s)]
ObjParams(t) == [kind |-> "object", hasText |-> TRUE, text |-> t]
EmptyObjParams == [kind |-> "object", hasText |-> FALSE, text |-> None]

\* !params : null, undefined and the empty string are falsy, objects are not
ParamsFalsy(p) == p.kind = "null" \/ (p.kind = "string" /\ p.text.str = <<>>)

\* typeof params === 'string' ? params : params.text ?? ''
EmbedText(p) == IF p.text.def THEN p.text.str ELSE <<>>

\* the TEXT_EMBEDDING handler
EmbedFn(p) ==
  IF ParamsFalsy(p) \/ (p.kind = "object" /\ ~p.hasText) THEN ZeroVec
  ELSE IF IsBlank(EmbedText(p)) THEN ZeroVec
  ELSE Accumulate(ZeroVec, EmbedText(p), 0, Len(EmbedText(p)))

(* ----------------------------- numbers --------------------------------- *)

\* A JavaScript number is Num(v) or NaN; Undef is an argument that was not
\* supplied; JsonNull is what JSON.stringify writes for NaN.  max_tokens
\* values are integers; temperature values are fixed-point with unit 0.1
\* (0.6 is Num(6)).
Num(v) == [k |-> "num", v |-> v]
NaN == [k |-> "NaN", v |-> 0]
Undef == [k |-> "undefined", v |-> 0]
JsonNull == [k |-> "null", v |-> 0]

\* truthiness of number | undefined: 0, NaN and undefined are falsy
NumTruthy(n) == n.k = "num" /\ n.v # 0

Digits == 48..57

\* the string without its leading white space
RECURSIVE DropWs(_)
DropWs(s) == IF s # <<>> /\ Head(s) \in WhiteSpace THEN DropWs(Tail(s)) ELSE s

\* length of the longest prefix of decimal digits
RECURSIVE DigitRun(_)
DigitRun(s) == IF s # <<>> /\ Head(s) \in Digits THEN 1 + DigitRun(Tail(s)) ELSE 0

\* value of a sequence of decimal digits
RECURSIVE DigitsValue(_)
DigitsValue(s) == IF s = <<>> THEN 0 ELSE 10 * DigitsValue(SubSeq(s, 1, Len(s) - 1)) + (s[Len(s)] - 48)

\* an optional sign: <<sign, rest>>
SignOf(s) == IF s # <<>> /\ Head(s) = 45 THEN <<-1, Tail(s)>>
             ELSE IF s # <<>> /\ Head(s) = 43 THEN <<1, Tail(s)>>
             ELSE <<1, s>>

\* parseInt(s) without radix, for decimal input: white space, sign, digits;
\* NaN when no digit follows
ParseInt(s) ==
  LET sg == SignOf(DropWs(s))
      n == DigitRun(sg[2])
  IN IF n = 0 THEN NaN ELSE Num(sg[1] * DigitsValue(SubSeq(sg[2], 1, n)))

\* parseFloat(s), in units of 0.1, for input with at most one fractional
\* digit: white space, sign, digits, optional "." and digits; NaN when
\* neither part has a digit
ParseFloat(s) ==
  LET sg == SignOf(DropWs(s))
      n == DigitRun(sg[2])
      rest == SubSeq(sg[2], n + 1, Len(sg[2]))
      frac == IF rest # <<>> /\ Head(rest) = 46 THEN Tail(rest) ELSE <<>>
      m == DigitRun(frac)
  IN IF n = 0 /\ m = 0 THEN NaN
     ELSE Num(sg[1] * (10 * DigitsValue(SubSeq(sg[2], 1, n)) + (IF m = 0 THEN 0 ELSE frac[1] - 48)))

(* ---------------------------- configuration ---------------------------- *)

\* '<|start_header_id|>assistant<|end_header_id|>\n\n'
Artifact == <<60, 124, 115, 116, 97, 114, 116, 95, 104, 101, 97, 100, 101, 114, 95, 105, 100, 124, 62, 97, 115, 115, 105, 115, 116, 97, 110, 116, 60, 124, 101, 110, 100, 95, 104, 101, 97, 100, 101, 114, 95, 105, 100, 124, 62, 10, 10>>
\* '/llm'
LlmPath == <<47, 108, 108, 109>>
\* 'Bearer '
BearerPrefix == <<66, 101, 97, 114, 101, 114, 32>>
\* 'ElizaV2-llm-default'
DefaultToken == <<69, 108, 105, 122, 97, 86, 50, 45, 108, 108, 109, 45, 100, 101, 102, 97, 117, 108, 116>>
\* 'meta-llama/Meta-Llama-3.1-8B-Instruct'
DefaultModel == <<109, 101, 116, 97, 45, 108, 108, 97, 109, 97, 47, 77, 101, 116, 97, 45, 76, 108, 97, 109, 97, 45, 51, 46, 49, 45, 56, 66, 45, 73, 110, 115, 116, 114, 117, 99, 116>>
\* 'You are a helpful assistant powered by Livepeer Gateway'
DefaultSystem == <<89, 111, 117, 32, 97, 114, 101, 32, 97, 32, 104, 101, 108, 112, 102, 117, 108, 32, 97, 115, 115, 105, 115, 116, 97, 110, 116, 32, 112, 111, 119, 101, 114, 101, 100, 32, 98, 121, 32, 76, 105, 118, 101, 112, 101, 101, 114, 32, 71, 97, 116, 101, 119, 97, 121>>

DefaultMaxTokensSmall == 512
DefaultMaxTokensLarge == 2048
\* 0.6, in units of 0.1
DefaultTemperature == 6

\* process.env.LIVEPEER_GATEWAY_URL || runtime.getSetting('LIVEPEER_GATEWAY_URL')
ResolveEndpoint(e, rt) == OrElse(e.LIVEPEER_GATEWAY_URL, rt.settings.LIVEPEER_GATEWAY_URL)

\* !endpoint
EndpointMissingLax(endpoint) == ~endpoint.def
EndpointMissing(endpoint) == ~Truthy(endpoint)

\* process.env.LIVEPEER_LARGE_MODEL || process.env.LIVEPEER_MODEL || '<default>'
ResolveModel(e) == OrElse(e.LIVEPEER_LARGE_MODEL, OrElse(e.LIVEPEER_MODEL, Some(DefaultModel))).str

\* runtime.character.system || '<default>'
ResolveSystem(rt) == OrElse(rt.system, Some(DefaultSystem)).str

\* 'Bearer ' + (process.env.LIVEPEER_API_KEY || runtime.getSetting('LIVEPEER_API_KEY') || '<default>')
ResolveAuthorization(e, rt) ==
  BearerPrefix \o OrElse(e.LIVEPEER_API_KEY, OrElse(rt.settings.LIVEPEER_API_KEY, Some(DefaultToken))).str

\* endpoint.replace(/\/$/, '') : one trailing slash removed
StripSlash(s) == IF s # <<>> /\ s[Len(s)] = 47 THEN SubSeq(s, 1, Len(s) - 1) ELSE s

\* `${endpoint.replace(/\/$/, '')}/llm`
RequestUrl(endpoint) == StripSlash(endpoint) \o LlmPath

\* process.env.LIVEPEER_MAX_TOKENS ? parseInt(process.env.LIVEPEER_MAX_TOKENS) : dflt
EnvMaxTokens(e, dflt) ==
  IF Truthy(e.LIVEPEER_MAX_TOKENS) THEN ParseInt(e.LIVEPEER_MAX_TOKENS.str) ELSE Num(dflt)

\* process.env.LIVEPEER_TEMPERATURE ? parseFloat(process.env.LIVEPEER_TEMPERATURE) : 0.6
EnvTemperature(e) ==
  IF Truthy(e.LIVEPEER_TEMPERATURE) THEN ParseFloat(e.LIVEPEER_TEMPERATURE.str) ELSE Num(DefaultTemperature)

ProfileDefault(profile) == IF profile = "TEXT_SMALL" THEN DefaultMaxTokensSmall ELSE DefaultMaxTokensLarge

\* the handlers' argument: maxTokens || (env ? parseInt(env) : 512 | 2048)
HandlerMaxTokens(profile, arg, e) == IF NumTruthy(arg) THEN arg ELSE EnvMaxTokens(e, ProfileDefault(profile))

\* the handlers' argument: temperature || (env ? parseFloat(env) : 0.6)
HandlerTemperature(arg, e) == IF NumTruthy(arg) THEN arg ELSE EnvTemperature(e)

\* callLivepeerLLM's parameter defaults, applied when the argument is undefined
ParamMaxTokens(p, e) == IF p.k = "undefined" THEN EnvMaxTokens(e, DefaultMaxTokensLarge) ELSE p
ParamTemperature(p, e) == IF p.k = "undefined" THEN EnvTemperature(e) ELSE p

\* JSON.stringify of a number: NaN is written as null
JsonNumber(n) == IF n.k = "NaN" THEN JsonNull ELSE n

\* the request of runtime.fetch: URL, Authorization header and the fields of
\* JSON.stringify(requestBody)
BuildRequest(profile, args, e, rt) ==
  [ url |-> RequestUrl(ResolveEndpoint(e, rt).str),
    method |-> "POST",
    authorization |-> ResolveAuthorization(e, rt),
    model |-> ResolveModel(e),
    system |-> ResolveSystem(rt),
    user |-> args.prompt,
    max_tokens |-> JsonNumber(ParamMaxTokens(HandlerMaxTokens(profile, args.maxTokens, e), e)),
    temperature |-> JsonNumber(ParamTemperature(HandlerTemperature(args.temperature, e), e)),
    stream |-> FALSE ]

(* ------------------------------ response ------------------------------- *)

\* res.ok
ResOkLax(status) == status < 400
ResOk(status) == status \in 200..299

\* A parsed body is null or an object; hasChoices says that it has a choices
\* array.  A choice holds message.content and delta.content, None when the
\* path json.choices[0].message.content (delta.content) yields undefined.
Choice(m, d) == [message |-> m, delta |-> d]
JsonObject(cs) == [isNull |-> FALSE, hasChoices |-> TRUE, choices |-> cs]
JsonNoChoices == [isNull |-> FALSE, hasChoices |-> FALSE, choices |-> <<>>]
JsonNullValue == [isNull |-> TRUE, hasChoices |-> FALSE, choices |-> <<>>]

\* json?.choices?.[0]
FirstChoiceLast(json) ==
  IF json.isNull \/ ~json.hasChoices \/ json.choices = <<>> THEN Choice(None, None)
  ELSE json.choices[Len(json.choices)]
FirstChoice(json) ==
  IF json.isNull \/ ~json.hasChoices \/ json.choices = <<>> THEN Choice(None, None)
  ELSE json.choices[1]

\* let content = json?.choices?.[0]?.message?.content;
\* if (!content && json?.choices?.[0]?.delta?.content) content = json.choices[0].delta.content;
ExtractContentDeltaFirst(json) ==
  LET first == FirstChoice(json)
  IN IF Truthy(first.delta) THEN first.delta ELSE first.message
ExtractContent(json) ==
  LET first == FirstChoice(json)
  IN IF ~Truthy(first.message) /\ Truthy(first.delta) THEN first.delta ELSE first.message

\* if (!content) throw new Error('Invalid response format from Livepeer')
ContentInvalid(content) == ~Truthy(content)

\* s starts with pat at 1-based position i
MatchAt(s, pat, i) == i + Len(pat) - 1 <= Len(s) /\ SubSeq(s, i, i + Len(pat) - 1) = pat

\* content.replace(/<literal>/, ''): the regular expression is the literal
\* artifact, without anchor and without the g flag, so the first occurrence
\* is removed, wherever it is
ReplaceFirst(s, pat) ==
  LET hits == {i \in 1..Len(s) : MatchAt(s, pat, i)}
  IN IF hits = {} THEN s
     ELSE LET i == CHOOSE h \in hits : \A g \in hits : h <= g
          IN SubSeq(s, 1, i - 1) \o SubSeq(s, i + Len(pat), Len(s))

StripArtifact(content) == ReplaceFirst(content, Artifact)

(* ------------------------------ outcomes ------------------------------- *)

NoOutcome == [kind |-> "none", error |-> "", status |-> 0, text |-> <<>>]
Returned(t) == [kind |-> "returned", error |-> "", status |-> 0, text |-> t]
\* new Error('Livepeer Gateway URL is not defined (LIVEPEER_GATEWAY_URL)')
ThrewGatewayUndefined == [kind |-> "threw", error |-> "GatewayUrlNotDefined", status |-> 0, text |-> <<>>]
\* new Error(`Livepeer request failed (${res.status}): ${text}`)
ThrewRequestFailed(status, text) == [kind |-> "threw", error |-> "RequestFailed", status |-> status, text |-> text]
\* new Error('Invalid response format from Livepeer')
ThrewInvalidFormat == [kind |-> "threw", error |-> "InvalidResponseFormat", status |-> 0, text |-> <<>>]
\* the rejection of runtime.fetch, propagated
ThrewFetchRejected == [kind |-> "threw", error |-> "FetchRejected", status |-> 0, text |-> <<>>]
\* the SyntaxError of res.json(), propagated
ThrewJsonSyntax == [kind |-> "threw", error |-> "JsonSyntaxError", status |-> 0, text |-> <<>>]

(* ------------------------------- state --------------------------------- *)

VARIABLES
  env,         \* process.env: the LIVEPEER_* variables
  runtime,     \* the host runtime: settings of getSetting, character.system
  calls,       \* per generate call: position and local variables
  initialized, \* livepeerPlugin.init has run
  embedIn,     \* <<p>>: the last parameters given to the TEXT_EMBEDDING handler
  embedOut     \* <<v>>: the vector it returned; <<>> before the first call

vars == <<env, runtime, calls, initialized, embedIn, embedOut>>

Calls == 1..NumCalls

\* a call that has not been made.  reads is the set of configuration entries
\* the call has read; requests the requests it has handed to runtime.fetch;
\* res the response it has received; parsed whether res.json() has run
IdleCall ==
  [ pc |-> "idle", profile |-> "TEXT_SMALL",
    args |-> [prompt |-> <<>>, maxTokens |-> Undef, temperature |-> Undef],
    reads |-> {}, requests |-> <<>>, res |-> <<>>, parsed |-> FALSE, outcome |-> NoOutcome ]

(* ------------------------------ generate ------------------------------- *)

\* the configuration entries a call reads before its first await: the ||
\* chains read their right operand only when the left one is falsy, and
\* nothing after the endpoint is read when the endpoint check throws
ConfigReads(profile, args, e, rt) ==
  (IF NumTruthy(args.maxTokens) THEN {} ELSE {"env.LIVEPEER_MAX_TOKENS"})
    \cup (IF NumTruthy(args.temperature) THEN {} ELSE {"env.LIVEPEER_TEMPERATURE"})
    \cup {"env.LIVEPEER_GATEWAY_URL"}
    \cup (IF Truthy(e.LIVEPEER_GATEWAY_URL) THEN {} ELSE {"setting.LIVEPEER_GATEWAY_URL"})
    \cup (IF EndpointMissing(ResolveEndpoint(e, rt)) THEN {}
          ELSE {"env.LIVEPEER_LARGE_MODEL", "character.system", "env.LIVEPEER_API_KEY"}
                 \cup (IF Truthy(e.LIVEPEER_LARGE_MODEL) THEN {} ELSE {"env.LIVEPEER_MODEL"})
                 \cup (IF Truthy(e.LIVEPEER_API_KEY) THEN {} ELSE {"setting.LIVEPEER_API_KEY"}))

\* TEXT_SMALL / TEXT_LARGE handler and callLivepeerLLM up to its first await:
\* resolve the arguments and the endpoint, throw when there is no endpoint,
\* otherwise build the request and hand it to runtime.fetch
Generate(c, profile, args) ==
  /\ calls[c].pc = "idle"
  /\ IF EndpointMissing(ResolveEndpoint(env, runtime))
     THEN calls' = [calls EXCEPT ![c] = [@ EXCEPT !.pc = "done", !.profile = profile, !.args = args,
                                                    !.reads = ConfigReads(profile, args, env, runtime),
                                                    !.outcome = ThrewGatewayUndefined]]
     ELSE calls' = [calls EXCEPT ![c] = [@ EXCEPT !.pc = "fetching", !.profile = profile, !.args = args,
                                                    !.reads = ConfigReads(profile, args, env, runtime),
                                                    !.requests = Append(@, BuildRequest(profile, args, env, runtime))]]
  /\ UNCHANGED <<env, runtime, initialized, embedIn, embedOut>>

\* await runtime.fetch(...) rejects: the rejection propagates to the caller
FetchRejectRetry(c) ==
  /\ calls[c].pc = "fetching"
  /\ Len(calls[c].requests) < 2
  /\ calls' = [calls EXCEPT ![c] = [@ EXCEPT !.requests = Append(@, @[1])]]
  /\ UNCHANGED <<env, runtime, initialized, embedIn, embedOut>>
FetchReject(c) ==
  /\ calls[c].pc = "fetching"
  /\ calls' = [calls EXCEPT ![c] = [@ EXCEPT !.pc = "done", !.outcome = ThrewFetchRejected]]
  /\ UNCHANGED <<env, runtime, initialized, embedIn, embedOut>>

\* await runtime.fetch(...) resolves with a response; if (!res.ok) the call
\* goes on to await res.text(), otherwise to await res.json()
FetchResolve(c, res) ==
  /\ calls[c].pc = "fetching"
  /\ calls' = [calls EXCEPT ![c] = [@ EXCEPT !.pc = IF ResOk(res.status) THEN "readingJson" ELSE "readingText",
                                             !.res = <<res>>]]
  /\ UNCHANGED <<env, runtime, initialized, embedIn, embedOut>>

\* const text = await res.text(); throw new Error(`... (${res.status}): ${text}`)
ReadText(c) ==
  /\ calls[c].pc = "readingText"
  /\ calls' = [calls EXCEPT ![c] = [@ EXCEPT !.pc = "done",
                                             !.outcome = ThrewRequestFailed(calls[c].res[1].status, calls[c].res[1].body.text)]]
  /\ UNCHANGED <<env, runtime, initialized, embedIn, embedOut>>

\* const json = await res.json(), content extraction, final check and
\* prefix removal
ReadJson(c) ==
  /\ calls[c].pc = "readingJson"
  /\ LET body == calls[c].res[1].body
         content == ExtractContent(body.json)
         out == IF ~body.parsable THEN ThrewJsonSyntax
                ELSE IF ContentInvalid(content) THEN ThrewInvalidFormat
                ELSE Returned(StripArtifact(content.str))
     IN calls' = [calls EXCEPT ![c] = [@ EXCEPT !.pc = "done", !.parsed = TRUE, !.outcome = out]]
  /\ UNCHANGED <<env, runtime, initialized, embedIn, embedOut>>

\* livepeerPlugin.init(config): logs only; the validation and the copy of
\* the configuration into process.env are commented out
PluginInitSetsEnv(config) ==
  /\ ~initialized
  /\ initialized' = TRUE
  /\ env' = [k \in DOMAIN env |-> IF config[k].def THEN config[k] ELSE env[k]]
  /\ UNCHANGED <<runtime, calls, embedIn, embedOut>>
PluginInit(config) ==
  /\ ~initialized
  /\ initialized' = TRUE
  /\ UNCHANGED <<env, runtime, calls, embedIn, embedOut>>

\* the TEXT_EMBEDDING handler
Embed(p) ==
  /\ embedIn' = <<p>>
  /\ embedOut' = <<EmbedFn(p)>>
  /\ UNCHANGED <<env, runtime, calls, initialized>>

(* ------------------------------- inputs -------------------------------- *)

\* all sequences over S of length at most n
RECURSIVE SeqsUpTo(_, _)
SeqsUpTo(S, n) ==
  IF n = 0 THEN {<<>>}
  ELSE LET shorter == SeqsUpTo(S, n - 1)
       IN shorter \cup {Append(t, x) : t \in shorter, x \in S}

\* tab, space, 'A', 'B'
Alphabet == {9, 32, 65, 66}
ShortTexts == SeqsUpTo(Alphabet, MaxShortLen)

\* a text of n code units 'A'..'G' with period 7, so that the positions that
\* share an entry of the vector hold different code units
LongText(n) == [i \in 1..n |-> 65 + ((i - 1) % 7)]
LongTexts == {LongText(DIMS + k) : k \in 0..MaxWrap} \cup {LongText(2 * DIMS + k) : k \in 0..MaxWrap}

EmbedTexts == ShortTexts \cup LongTexts
EmbedInputs ==
  {NullParams, EmptyObjParams, ObjParams(None)}
    \cup {StrParams(t) : t \in EmbedTexts} \cup {ObjParams(Some(t)) : t \in EmbedTexts}

\* 'gw/', 'alt', 'alt//'
GatewayEnvValues == {None, Some(<<>>), Some(<<103, 119, 47>>)}
GatewaySettingValues == {None, Some(<<>>), Some(<<97, 108, 116>>), Some(<<97, 108, 116, 47, 47>>)}
\* '0.2', 'abc'
TemperatureEnvValues == {None, Some(<<48, 46, 50>>), Some(<<97, 98, 99>>)}
\* '77', ' 12px'
MaxTokensEnvValues == {None, Some(<<55, 55>>), Some(<<32, 49, 50, 112, 120>>)}
\* API key in process.env, API key setting, model, large model, persona:
\* 'k', 's', 'm', 'L', 'P'
KeyModelValues ==
  { <<None, None, None, None, None>>,
    <<Some(<<107>>), Some(<<115>>), Some(<<109>>), None, Some(<<80>>)>>,
    <<None, Some(<<115>>), Some(<<109>>), Some(<<76>>), Some(<<>>)>> }

MkEnv(g, km, t, m) ==
  [ LIVEPEER_GATEWAY_URL |-> g, LIVEPEER_API_KEY |-> km[1], LIVEPEER_MODEL |-> km[3],
    LIVEPEER_LARGE_MODEL |-> km[4], LIVEPEER_TEMPERATURE |-> t, LIVEPEER_MAX_TOKENS |-> m ]
MkRuntime(gs, km) ==
  [ settings |-> [LIVEPEER_GATEWAY_URL |-> gs, LIVEPEER_API_KEY |-> km[2]], system |-> km[5] ]

Profiles == {"TEXT_SMALL", "TEXT_LARGE"}
\* 'Hi'
Prompts == {<<72, 105>>}
MaxTokensArgs == {Undef, Num(0), Num(100)}
\* undefined, 0, 0.9
TemperatureArgs == {Undef, Num(0), Num(9)}
GenerateArgs ==
  {[prompt |-> p, maxTokens |-> m, temperature |-> t] : p \in Prompts, m \in MaxTokensArgs, t \in TemperatureArgs}

\* 'Hello', 'X', 'Y'
Hello == <<72, 101, 108, 108, 111>>
MessageContents ==
  { None, Some(<<>>), Some(<<88>>), Some(Artifact \o Hello),
    Some(<<72, 105>> \o Artifact \o Hello), Some(Artifact \o Artifact \o <<88>>) }
DeltaContents == {None, Some(<<>>), Some(<<89>>), Some(Artifact \o Hello)}

\* JSON text of a string: quotes, with '"', '\' and line feed escaped
RECURSIVE JsonEscape(_)
JsonEscape(t) ==
  IF t = <<>> THEN <<>>
  ELSE (IF Head(t) = 10 THEN <<92, 110>>
        ELSE IF Head(t) \in {34, 92} THEN <<92, Head(t)>>
        ELSE <<Head(t)>>) \o JsonEscape(Tail(t))
JsonString(t) == <<34>> \o JsonEscape(t) \o <<34>>

\* '{"content":<string or null>}'
ContentText(o) ==
  <<123, 34, 99, 111, 110, 116, 101, 110, 116, 34, 58>>
    \o (IF o.def THEN JsonString(o.str) ELSE <<110, 117, 108, 108>>) \o <<125>>
\* '{"message":...,"delta":...}'
ChoiceText(ch) ==
  <<123, 34, 109, 101, 115, 115, 97, 103, 101, 34, 58>> \o ContentText(ch.message)
    \o <<44, 34, 100, 101, 108, 116, 97, 34, 58>> \o ContentText(ch.delta) \o <<125>>
RECURSIVE ChoicesText(_)
ChoicesText(cs) ==
  IF cs = <<>> THEN <<>>
  ELSE ChoiceText(Head(cs)) \o (IF Tail(cs) = <<>> THEN <<>> ELSE <<44>>) \o ChoicesText(Tail(cs))
\* 'null', '{}', '{"choices":[...]}'
JsonText(j) ==
  IF j.isNull THEN <<110, 117, 108, 108>>
  ELSE IF ~j.hasChoices THEN <<123, 125>>
  ELSE <<123, 34, 99, 104, 111, 105, 99, 101, 115, 34, 58, 91>> \o ChoicesText(j.choices) \o <<93, 125>>

\* a response body: its text, and what JSON.parse makes of it
ParsableBody(j) == [text |-> JsonText(j), parsable |-> TRUE, json |-> j]
\* 'oops'
UnparsableBody == [text |-> <<111, 111, 112, 115>>, parsable |-> FALSE, json |-> JsonNullValue]

Jsons ==
  {JsonNullValue, JsonNoChoices, JsonObject(<<>>),
   JsonObject(<<Choice(None, None), Choice(Some(<<88>>), Some(<<89>>))>>)}
    \cup {JsonObject(<<Choice(m, d)>>) : m \in MessageContents, d \in DeltaContents}
Bodies == {UnparsableBody} \cup {ParsableBody(j) : j \in Jsons}
ErrorBodies ==
  {UnparsableBody, ParsableBody(JsonNoChoices), ParsableBody(JsonObject(<<Choice(Some(<<88>>), Some(<<89>>))>>))}

Responses ==
  {[status |-> 200, body |-> b] : b \in Bodies}
    \cup {[status |-> st, body |-> b] : st \in {299, 300, 404, 500}, b \in ErrorBodies}

\* the smaller input sets of the concurrent specification
ConcEnvs == {MkEnv(g, km, t, t) : g \in {None, Some(<<103, 119, 47>>)},
                                  km \in {<<None, None, None, None, None>>},
                                  t \in {None, Some(<<55, 55>>)}}
\* a small-profile call without arguments, a large-profile call with both
ConcArgs ==
  { <<"TEXT_SMALL", [prompt |-> <<72, 105>>, maxTokens |-> Undef, temperature |-> Undef]>>,
    <<"TEXT_LARGE", [prompt |-> <<72, 105>>, maxTokens |-> Num(100), temperature |-> Num(9)]>> }
ConcResponses ==
  { [status |-> 200, body |-> ParsableBody(JsonObject(<<Choice(Some(Artifact \o Hello), None)>>))],
    [status |-> 200, body |-> ParsableBody(JsonObject(<<Choice(None, None)>>))],
    [status |-> 500, body |-> UnparsableBody] }

(* --------------------------- specifications ---------------------------- *)

InitCommon ==
  /\ calls = [c \in Calls |-> IdleCall]
  /\ initialized = FALSE
  /\ embedIn = <<>>
  /\ embedOut = <<>>

\* one generate call, over all configurations, arguments and responses
Init ==
  /\ InitCommon
  /\ \E g \in GatewayEnvValues, km \in KeyModelValues, t \in TemperatureEnvValues, m \in MaxTokensEnvValues :
       \E gs \in GatewaySettingValues :
         /\ env = MkEnv(g, km, t, m)
         /\ runtime = MkRuntime(gs, km)

Next ==
  \/ \E profile \in Profiles, args \in GenerateArgs : Generate(1, profile, args)
  \/ FetchReject(1)
  \/ \E res \in Responses : FetchResolve(1, res)
  \/ ReadText(1)
  \/ ReadJson(1)

Spec == Init /\ [][Next]_vars

\* concurrent generate calls and plugin init
InitConc ==
  /\ InitCommon
  /\ env \in ConcEnvs
  /\ runtime \in {MkRuntime(gs, <<None, None, None, None, None>>) : gs \in {None, Some(<<97, 108, 116>>)}}

NextConc ==
  \/ \E c \in Calls, pa \in ConcArgs : Generate(c, pa[1], pa[2])
  \/ \E c \in Calls : FetchReject(c)
  \/ \E c \in Calls, res \in ConcResponses : FetchResolve(c, res)
  \/ \E c \in Calls : ReadText(c)
  \/ \E c \in Calls : ReadJson(c)
  \/ \E config \in ConcEnvs : PluginInit(config)

SpecConc == InitConc /\ [][NextConc]_vars

\* the embedding handler over all inputs
InitEmbed ==
  /\ InitCommon
  /\ env = MkEnv(None, <<None, None, None, None, None>>, None, None)
  /\ runtime = MkRuntime(None, <<None, None, None, None, None>>)

NextEmbed == \E p \in EmbedInputs : Embed(p)

SpecEmbed == InitEmbed /\ [][NextEmbed]_vars

(* ------------------------------- claims -------------------------------- *)

\* an optional string that is unset or empty
Unset(o) == ~o.def \/ Len(o.str) = 0
\* an optional string holding at least one code unit
NonEmpty(o) == o.def /\ Len(o.str) > 0

\* the call has received a response with a success status and a JSON body
GotJson(c) ==
  /\ calls[c].pc = "done"
  /\ calls[c].res # <<>>
  /\ calls[c].res[1].status \in 200..299
  /\ calls[c].res[1].body.parsable

\* choices[0] of the call's response, with both contents absent when there
\* is no such element
Choice0(c) ==
  LET j == calls[c].res[1].body.json
  IN IF j.isNull \/ ~j.hasChoices \/ Len(j.choices) = 0 THEN [message |-> None, delta |-> None]
     ELSE j.choices[1]

\* r is t without its first occurrence of the artifact (t itself when the
\* artifact does not occur in t)
FirstArtifactRemoved(t, r) ==
  LET n == Len(Artifact)
      At(i) == i + n - 1 <= Len(t) /\ \A k \in 1..n : t[i + k - 1] = Artifact[k]
  IN IF \A i \in 1..Len(t) : ~At(i) THEN r = t
     ELSE \E i \in 1..Len(t) :
            /\ At(i)
            /\ \A h \in 1..(i - 1) : ~At(h)
            /\ r = [k \in 1..(Len(t) - n) |-> IF k < i THEN t[k] ELSE t[k + n]]

\* r is t without a leading artifact (t itself when t does not start with it)
LeadingArtifactRemoved(t, r) ==
  LET n == Len(Artifact)
  IN IF n <= Len(t) /\ \A k \in 1..n : t[k] = Artifact[k]
     THEN r = [k \in 1..(Len(t) - n) |-> t[k + n]]
     ELSE r = t

\* C1: a generate call made while the gateway endpoint is unset or empty in
\* process.env and in the runtime settings fails with the configuration
\* error and sends no HTTP request.
C1_NoEndpointFails ==
  \A c \in Calls :
    (calls[c].pc # "idle" /\ Unset(env.LIVEPEER_GATEWAY_URL) /\ Unset(runtime.settings.LIVEPEER_GATEWAY_URL))
      => /\ calls[c].pc = "done"
         /\ calls[c].outcome.kind = "threw"
         /\ calls[c].outcome.error = "GatewayUrlNotDefined"
         /\ calls[c].requests = <<>>
         /\ calls[c].res = <<>>

C1_Witness ==
  /\ calls[1].pc = "done"
  /\ calls[1].profile = "TEXT_LARGE"
  /\ calls[1].args.maxTokens = Num(100)
  /\ env.LIVEPEER_GATEWAY_URL = Some(<<>>)
  /\ runtime.settings.LIVEPEER_GATEWAY_URL = Some(<<>>)
  /\ calls[1].outcome = ThrewGatewayUndefined

\* C2: a generate call whose response has a non-success status fails with
\* the upstream error carrying the status and the body text; the body is
\* not parsed as JSON and no text is returned.
C2_NonSuccessFails ==
  \A c \in Calls :
    (calls[c].res # <<>> /\ calls[c].res[1].status \notin 200..299)
      => /\ ~calls[c].parsed
         /\ calls[c].outcome.kind # "returned"
         /\ calls[c].pc \in {"readingText", "done"}
         /\ calls[c].pc = "done" =>
              /\ calls[c].outcome.kind = "threw"
              /\ calls[c].outcome.error = "RequestFailed"
              /\ calls[c].outcome.status = calls[c].res[1].status
              /\ calls[c].outcome.text = calls[c].res[1].body.text

C2_Witness ==
  /\ calls[1].pc = "done"
  /\ calls[1].res # <<>>
  /\ calls[1].res[1].status = 500
  /\ calls[1].res[1].body.text = <<111, 111, 112, 115>>
  /\ calls[1].outcome.status = 500
  /\ calls[1].outcome.text = <<111, 111, 112, 115>>

\* C3 as stated: whenever message.content is present the returned text
\* comes from it, and when it is absent a delta.content X makes generate
\* return X, for every string X.
C3_Original ==
  \A c \in Calls :
    GotJson(c) =>
      LET ch == Choice0(c)
      IN /\ ch.message.def =>
              /\ calls[c].outcome.kind = "returned"
              /\ FirstArtifactRemoved(ch.message.str, calls[c].outcome.text)
         /\ (~ch.message.def /\ ch.delta.def) => calls[c].outcome = Returned(ch.delta.str)

\* C3 amended: a non-empty message.content supplies the returned text
\* whatever delta.content is; delta.content is used only when
\* message.content is absent or empty, and then a non-empty delta.content X
\* makes generate return X without its first occurrence of the artifact.
C3_ContentPriority ==
  \A c \in Calls :
    GotJson(c) =>
      LET ch == Choice0(c)
      IN /\ NonEmpty(ch.message) =>
              /\ calls[c].outcome.kind = "returned"
              /\ FirstArtifactRemoved(ch.message.str, calls[c].outcome.text)
         /\ (~NonEmpty(ch.message) /\ NonEmpty(ch.delta)) =>
              /\ calls[c].outcome.kind = "returned"
              /\ FirstArtifactRemoved(ch.delta.str, calls[c].outcome.text)

C3_Witness ==
  /\ GotJson(1)
  /\ Choice0(1).message = Some(<<>>)
  /\ Choice0(1).delta = Some(<<89>>)
  /\ calls[1].outcome = Returned(<<89>>)

\* C4: a success response in which message.content and delta.content of
\* choices[0] are both absent (choices missing or empty included) makes
\* generate fail with the invalid-response-format error.
C4_BothAbsentFails ==
  \A c \in Calls :
    (GotJson(c) /\ ~Choice0(c).message.def /\ ~Choice0(c).delta.def)
      => calls[c].outcome = ThrewInvalidFormat

C4_Witness ==
  /\ GotJson(1)
  /\ calls[1].res[1].body.json.hasChoices
  /\ Len(calls[1].res[1].body.json.choices) = 2
  /\ ~Choice0(1).message.def
  /\ ~Choice0(1).delta.def
  /\ calls[1].outcome = ThrewInvalidFormat

\* C5 as stated: the returned text is the extracted text without a leading
\* artifact, and the extracted text unchanged when it does not start with
\* the artifact, also when the artifact occurs later inside it.
C5_Original ==
  \A c \in Calls :
    (GotJson(c) /\ calls[c].outcome.kind = "returned") =>
      LET ch == Choice0(c)
          T == IF NonEmpty(ch.message) THEN ch.message.str ELSE ch.delta.str
      IN LeadingArtifactRemoved(T, calls[c].outcome.text)

\* the value the claim C6 puts in the request body for one of the two fields
C6_Expected(arg, envValue, parsed, dflt) ==
  IF arg.k # "undefined" THEN arg
  ELSE IF NonEmpty(envValue) THEN (IF parsed.k = "NaN" THEN JsonNull ELSE parsed)
  ELSE Num(dflt)

\* C6 as stated: max_tokens and temperature of the request body are the
\* explicit argument whenever one is supplied, otherwise the environment
\* override when set, otherwise 512 (small) or 2048 (large) and 0.6.
C6_Original ==
  \A c \in Calls :
    calls[c].requests # <<>> =>
      /\ calls[c].requests[1].max_tokens =
           C6_Expected(calls[c].args.maxTokens, env.LIVEPEER_MAX_TOKENS,
                       ParseInt(env.LIVEPEER_MAX_TOKENS.str),
                       IF calls[c].profile = "TEXT_SMALL" THEN 512 ELSE 2048)
      /\ calls[c].requests[1].temperature =
           C6_Expected(calls[c].args.temperature, env.LIVEPEER_TEMPERATURE,
                       ParseFloat(env.LIVEPEER_TEMPERATURE.str), 6)

\* the inputs for which embed returns the zero vector according to C7
C7_ZeroInput(p) ==
  \/ p.kind = "null"
  \/ p.kind = "object" /\ (~p.hasText \/ ~p.text.def)
  \/ p.kind \in {"string", "object"} /\ p.text.def
       /\ \A i \in 1..Len(p.text.str) : p.text.str[i] \in WhiteSpace

\* C7: embed returns 384 entries for every input, all of them zero when the
\* input is null, an object without usable text, or a text that is empty or
\* white space only (so embed(null), embed("") and embed({}) are equal).
C7_ZeroVector ==
  embedOut # <<>> =>
    /\ DOMAIN embedOut[1] = 0..383
    /\ Cardinality(DOMAIN embedOut[1]) = 384
    /\ C7_ZeroInput(embedIn[1]) => \A j \in 0..383 : Len(embedOut[1][j]) = 0

C7_Witness ==
  /\ embedIn = <<ObjParams(Some(<<32, 9>>))>>
  /\ embedOut # <<>>
  /\ \A j \in 0..383 : embedOut[1][j] = <<>>

\* the code units of text at the positions i (from 0) with i mod 384 = j,
\* in increasing i
C8_Addends(text, j) ==
  LET count == IF j < Len(text) THEN (Len(text) - j + 383) \div 384 ELSE 0
  IN [k \in 1..count |-> text[j + 384 * (k - 1) + 1]]

\* C8: for a text that is not empty or white space only, entry j of the
\* result is the sum of charCode(i)/65535 over exactly the positions i with
\* i mod 384 = j, and 0 when there is none; texts longer than 384 wrap around.
C8_Accumulation ==
  (embedOut # <<>> /\ ~C7_ZeroInput(embedIn[1])) =>
    \A j \in 0..383 : embedOut[1][j] = C8_Addends(embedIn[1].text.str, j)

C8_Witness ==
  /\ embedIn # <<>>
  /\ embedIn[1].kind = "string"
  /\ Len(embedIn[1].text.str) = 2 * 384 + 1
  /\ embedOut[1][0] = <<65, 71, 70>>
  /\ embedOut[1][1] = <<66, 65>>

\* the call has failed: transport failure, non-success status, unparsable
\* body, or a body without usable content
C9_Failed(c) ==
  \/ calls[c].pc = "done" /\ calls[c].requests # <<>> /\ calls[c].res = <<>>
  \/ calls[c].res # <<>> /\ calls[c].res[1].status \notin 200..299
  \/ calls[c].res # <<>> /\ ~calls[c].res[1].body.parsable
  \/ calls[c].res # <<>> /\ ~NonEmpty(Choice0(c).message) /\ ~NonEmpty(Choice0(c).delta)

C9_State ==
  \A c \in Calls :
    /\ Len(calls[c].requests) <= 1
    /\ calls[c].requests # <<>> =>
         LET endpoint == IF NonEmpty(env.LIVEPEER_GATEWAY_URL) THEN env.LIVEPEER_GATEWAY_URL
                         ELSE runtime.settings.LIVEPEER_GATEWAY_URL
             n == Len(endpoint.str)
             base == IF endpoint.str[n] = 47 THEN [k \in 1..(n - 1) |-> endpoint.str[k]] ELSE endpoint.str
         IN /\ NonEmpty(endpoint)
            /\ calls[c].requests[1].method = "POST"
            /\ calls[c].requests[1].url = base \o <<47, 108, 108, 109>>
    /\ C9_Failed(c) => calls[c].outcome.kind # "returned"
    /\ (C9_Failed(c) /\ calls[c].pc = "done") => calls[c].outcome.kind = "threw"
    /\ calls[c].outcome.kind = "threw" => calls[c].pc = "done"

\* once a call has started (its request sent, or the call failed before),
\* it sends nothing more, and a call that is done stays as it is
C9_Step ==
  \A c \in Calls :
    /\ calls[c].pc # "idle" => calls'[c].requests = calls[c].requests
    /\ calls[c].pc = "done" => calls'[c] = calls[c]

\* C9: a generate call sends at most one request, a POST to the resolved
\* endpoint without one trailing slash followed by /llm; after a failure it
\* sends nothing more, returns no text and ends with an error.
C9_SingleRequest == []C9_State /\ [][C9_Step]_vars

C9_Witness ==
  /\ calls[1].pc = "done"
  /\ Len(calls[1].requests) = 1
  /\ calls[1].requests[1].url = <<97, 108, 116, 47, 47, 108, 108, 109>>
  /\ calls[1].res = <<>>
  /\ calls[1].outcome = ThrewFetchRejected

\* what a call running alone sends, given its arguments and the configuration
C10_SoloRequests(profile, args, e, rt) ==
  IF Unset(e.LIVEPEER_GATEWAY_URL) /\ Unset(rt.settings.LIVEPEER_GATEWAY_URL) THEN <<>>
  ELSE <<BuildRequest(profile, args, e, rt)>>

\* how a call running alone ends, given the configuration and what the
\* network answers (res = <<>>: the transport fails)
C10_SoloOutcome(e, rt, res) ==
  IF Unset(e.LIVEPEER_GATEWAY_URL) /\ Unset(rt.settings.LIVEPEER_GATEWAY_URL) THEN ThrewGatewayUndefined
  ELSE IF res = <<>> THEN ThrewFetchRejected
  ELSE IF res[1].status \notin 200..299 THEN ThrewRequestFailed(res[1].status, res[1].body.text)
  ELSE IF ~res[1].body.parsable THEN ThrewJsonSyntax
  ELSE LET content == ExtractContent(res[1].body.json)
       IN IF NonEmpty(content) THEN Returned(StripArtifact(content.str)) ELSE ThrewInvalidFormat

C10_State ==
  \A c \in Calls :
    /\ calls[c].pc # "idle" =>
         calls[c].requests = C10_SoloRequests(calls[c].profile, calls[c].args, env, runtime)
    /\ calls[c].pc = "done" => calls[c].outcome = C10_SoloOutcome(env, runtime, calls[c].res)

C10_Step ==
  /\ env' = env
  /\ runtime' = runtime
  /\ \A c \in Calls : calls[c].pc # "idle" => calls'[c].reads = calls[c].reads
  /\ \A c1, c2 \in Calls : (c1 # c2 /\ calls'[c1] # calls[c1]) => calls'[c2] = calls[c2]

\* C10: in every interleaving of generate calls and plugin init nobody
\* writes the configuration or another call's state, every call sends and
\* ends as it would alone, and a call reads the configuration only before
\* it suspends at the HTTP request.
C10_Isolation == []C10_State /\ [][C10_Step]_vars

C10_Witness ==
  /\ initialized
  /\ calls[1].pc = "done"
  /\ calls[2].pc = "done"
  /\ calls[1].outcome.kind = "returned"
  /\ calls[2].outcome.error = "RequestFailed"
  /\ calls[1].reads # calls[2].reads
  /\ calls[1].requests # calls[2].requests

====
